---- MODULE Spec2Model ----
(***************************************************************************)
(* A model of backend/ai_generator.py: AIGenerator.generate_response and   *)
(* the sequential tool-calling round loop it drives, together with the     *)
(* collaborators the loop talks to (the model provider, the tool manager,  *)
(* the caller that reads the sources after the loop).                      *)
(*                                                                         *)
(* Python values are represented as follows.                               *)
(*   - a str built at run time is a record [pre, p, n, i]: pre is the      *)
(*     sequence of literal pieces an f-string puts in front of it, and     *)
(*     (p, n, i) says which invocation, model call and content block the   *)
(*     text comes from, so that two different texts are never equal;       *)
(*   - None for a str argument is the string "None"; an Optional list is   *)
(*     [some, list];                                                       *)
(*   - a dict is a record, {**a, **b} is  b @@ a;                          *)
(*   - a message is [role, content], content always a sequence of blocks   *)
(*     (the query string is the single block [type |-> "str", text]).      *)
(***************************************************************************)
EXTENDS Integers, Sequences, FiniteSets, TLC

\* Largest round budget (max_rounds) an invocation is called with.
MaxRounds == 2

\* How many /api/query requests the test client sends.
MaxRequests == 2

\* The requests that may be in flight at the same time.
Procs == {1, 2}

VARIABLES
    base_params,        \* self.base_params, shared by every invocation
    pc,                 \* where each invocation stands
    args,               \* the arguments generate_response was called with
    system_content,     \* local: the system instruction
    messages,           \* local: the message chain
    round_count,        \* local of _execute_sequential_rounds
    response,           \* local: the tool-use response being handled
    tool_results,       \* local of _handle_tool_execution_sequential
    execution_success,  \* local of _handle_tool_execution_sequential
    block_index,        \* position of the for loop over response.content
    result,             \* what generate_response returned or raised
    calls,              \* history: every client.messages.create call
    dispatches,         \* history: every tool_manager.execute_tool call
    last_sources,       \* Source Record of the shared Retrieval Tool
    sources_seen,       \* what each caller read from the Source Record
    api_log,            \* history: every /api/query request and its response
    create_session_calls, \* mock_rag.session_manager.create_session.call_count
    query_calls,        \* mock_rag.query.call_args_list
    helper              \* _handle_tool_execution: its arguments and locals

vars == <<base_params, pc, args, system_content, messages, round_count,
          response, tool_results, execution_success, block_index, result,
          calls, dispatches, last_sources, sources_seen,
          api_log, create_session_calls, query_calls, helper>>

\* The state of the test application's endpoint.
endpoint == <<api_log, create_session_calls, query_calls>>

\* The state of the generator and of its callers, the helper apart.
rounds == <<base_params, pc, args, system_content, messages, round_count,
            response, tool_results, execution_success, block_index, result,
            calls, dispatches, last_sources, sources_seen>>

\* The state of the generator and of its callers.
generator == <<rounds, helper>>

locals == <<system_content, messages, round_count, response, tool_results,
            execution_success, block_index>>

----------------------------------------------------------------------------
\* Python values

NoneStr == "None"

NoneList == [some |-> FALSE, list |-> <<>>]

SomeList(l) == [some |-> TRUE, list |-> l]

\* A plausible slip: "is not None" instead of the truth value.
IsNotNone(s) == s # NoneStr

\* bool(x) of an Optional[str]
TruthyStr(s) == s # NoneStr /\ s # ""

\* bool(x) of an Optional[List]
TruthyList(l) == l.some /\ Len(l.list) > 0

Str(pre, p, n, i) == [pre |-> <<pre>>, p |-> p, n |-> n, i |-> i]

\* f"{prefix}{s}"
Fmt(prefix, s) == [s EXCEPT !.pre = <<prefix>> \o @]

NoStr == [pre |-> <<>>, p |-> 0, n |-> 0, i |-> 0]

----------------------------------------------------------------------------
\* AIGenerator: class attribute and constructor

SYSTEM_PROMPT == "SYSTEM_PROMPT"

InitBaseParams == [model |-> "model", temperature |-> 0, max_tokens |-> 800]

----------------------------------------------------------------------------
\* The inputs of generate_response

Queries(p) == {Str("query", p, 0, 0)}

Histories == {NoneStr, "", "User: hi Assistant: hello"}

ToolSchemas == <<"search_course_content", "get_course_outline">>

ToolLists == {NoneList, SomeList(<<>>), SomeList(ToolSchemas)}

ToolManagers == {NoneStr, "tool_manager"}

RoundBudgets == (0 - 1) .. MaxRounds

\* Both requests are in flight (the second one exists at all).
Concurrent == \A p \in Procs : pc[p] # "absent"

Inputs(p) ==
    IF Concurrent
    THEN [query : Queries(p),
          conversation_history : {IF p = 1 THEN NoneStr ELSE "User: hi Assistant: hello"},
          tools : {NoneList, SomeList(ToolSchemas)},
          tool_manager : {"tool_manager"}, max_rounds : 1 .. MaxRounds]
    ELSE [query : Queries(p), conversation_history : Histories,
          tools : ToolLists, tool_manager : ToolManagers,
          max_rounds : RoundBudgets]

----------------------------------------------------------------------------
\* The model provider: what client.messages.create may answer

RegisteredTools == {"search_course_content", "get_course_outline"}

\* The kinds of content block: text, a search, an outline, an unknown tool.
ToolName(kind) ==
    CASE kind = "S" -> "search_course_content"
      [] kind = "O" -> "get_course_outline"
      [] OTHER -> "nonexistent_tool"

TextBlock(p, n, i) == [type |-> "text", text |-> Str("Response text", p, n, i)]

ToolUseBlock(p, n, i, kind) ==
    [type |-> "tool_use", id |-> <<p, n, i>>, name |-> ToolName(kind),
     input |-> [query |-> kind]]

Content(kinds, p, n) ==
    [i \in 1 .. Len(kinds) |->
        IF kinds[i] = "T" THEN TextBlock(p, n, i)
        ELSE ToolUseBlock(p, n, i, kinds[i])]

\* The contents of a response that stops for tool use.
ToolUseShapes ==
    IF Concurrent THEN {<<"S">>, <<"T">>}
    ELSE {<<"S">>, <<"T", "S">>, <<"S", "O">>, <<"X">>, <<"T">>}

Raised(p, n) ==
    [raised |-> TRUE, error |-> Str("API error", p, n, 0),
     stop_reason |-> "", content |-> <<>>]

Answered(stop, kinds, p, n) ==
    [raised |-> FALSE, error |-> NoStr,
     stop_reason |-> stop, content |-> Content(kinds, p, n)]

\* The outcomes of the n-th model call of invocation p.
ModelOutcomes(p, n, with_tools) ==
    {Raised(p, n)}
    \cup {Answered(s, <<"T">>, p, n) :
            s \in IF Concurrent THEN {"end_turn"} ELSE {"end_turn", "max_tokens"}}
    \cup IF with_tools
         THEN {Answered("tool_use", k, p, n) : k \in ToolUseShapes}
         ELSE IF Concurrent THEN {}
              ELSE {Answered("tool_use", <<"T", "S">>, p, n)}

\* response.content[0].text
ResponseText(r) == r.content[1].text

----------------------------------------------------------------------------
\* The tool manager and the Retrieval Tool behind it

\* execute(name, **kwargs): an unknown name fails, a handler returns or raises.
ToolOutcomes(name) ==
    IF name \in RegisteredTools THEN {"ok", "raise"} ELSE {"raise"}

ToolOutput(blk) == Str("Tool output", blk.id[1], blk.id[2], blk.id[3])

ToolError(blk) ==
    Str(IF blk.name \in RegisteredTools THEN "handler failed" ELSE "UnknownTool",
        blk.id[1], blk.id[2], blk.id[3])

\* The source headers a search records: those of the search that made them.
Sources(blk) == <<blk.id>>

\* The Retrieval Tool replaces its Source Record on every search it performs.
RecordSources(blk, outcome) ==
    last_sources' =
        IF blk.name = "search_course_content" /\ outcome = "ok"
        THEN Sources(blk) ELSE last_sources

----------------------------------------------------------------------------
\* generate_response and its helpers

Set(f, p, v) == [f EXCEPT ![p] = v]

SystemContent(conversation_history) ==
    IF TruthyStr(conversation_history)
    THEN <<SYSTEM_PROMPT, "\n\nPrevious conversation:\n", conversation_history>>
    ELSE <<SYSTEM_PROMPT>>

UserQuery(query) == [role |-> "user", content |-> <<[type |-> "str", text |-> query]>>]

\* A plausible slip: the tool manager is not looked at.
UseSequentialRoundsToolsOnly(tools, tool_manager) == TruthyList(tools)

\* if tools and tool_manager
UseSequentialRounds(tools, tool_manager) ==
    TruthyList(tools) /\ TruthyStr(tool_manager)

\* A plausible slip: the shared dict is updated in place.
UpdateBaseParams(msgs, sys) ==
    base_params' = [messages |-> msgs, system |-> sys] @@ base_params

\* **self.base_params: the shared dict is read into a new dict, never written
SpreadBaseParams(msgs, sys) == base_params' = base_params

\* A plausible slip: the final parameters are built from the round's.
ApiParamsKeepingTools(base, msgs, sys) ==
    [messages |-> msgs, system |-> sys, tools |-> ToolSchemas,
     tool_choice |-> [type |-> "auto"]] @@ base

\* {**self.base_params, "messages": ..., "system": ...}
ApiParams(base, msgs, sys) == [messages |-> msgs, system |-> sys] @@ base

ApiParamsWithTools(base, msgs, sys, tools) ==
    [messages |-> msgs, system |-> sys, tools |-> tools,
     tool_choice |-> [type |-> "auto"]] @@ base

\* A plausible slip: the counter is left as it is.
SameRound(rc) == rc

\* round_count += 1
IncrementRound(rc) == rc + 1

\* A plausible slip: the first round is made whatever the budget.
LoopGuardAfterFirst(rc, max_rounds) == rc = 0 \/ rc < max_rounds

\* A plausible slip: one round too many.
LoopGuardInclusive(rc, max_rounds) == rc <= max_rounds

\* while round_count < max_rounds
LoopGuard(rc, max_rounds) == rc < max_rounds

\* A plausible slip: every stop reason but a normal end counts as tool use.
RequestsToolsUnlessEnd(r) == r.stop_reason # "end_turn"

\* response.stop_reason != "tool_use" returns; anything else handles tools
RequestsTools(r) == r.stop_reason = "tool_use"

AssistantMessage(r) == [role |-> "assistant", content |-> r.content]

ToolResultOk(blk, text) ==
    [type |-> "tool_result", tool_use_id |-> blk.id, content |-> text]

ToolResultErr(blk, e) ==
    [type |-> "tool_result", tool_use_id |-> blk.id,
     content |-> Fmt("Tool execution failed: ", e)]

ToolResult(blk, outcome) ==
    IF outcome = "ok" THEN ToolResultOk(blk, ToolOutput(blk))
    ELSE ToolResultErr(blk, ToolError(blk))

\* A plausible slip: the newest result is put first.
AddResultFront(results, blk, outcome) == <<ToolResult(blk, outcome)>> \o results

\* A plausible slip: only successful dispatches leave a result.
AddResultOnSuccess(results, blk, outcome) ==
    IF outcome = "ok" THEN Append(results, ToolResult(blk, outcome)) ELSE results

\* tool_results.append(...) of either branch of the try
AddResult(results, blk, outcome) == Append(results, ToolResult(blk, outcome))

\* A plausible slip: the flag is assigned from the last dispatch alone.
SuccessOfLast(success, outcome) == outcome = "ok"

\* execution_success stays True only while no dispatch has raised
SuccessAfter(success, outcome) == success /\ outcome = "ok"

\* A plausible slip: the loop is left at the first failure.
NextIndexBreak(i, content, success) == IF success THEN i + 1 ELSE Len(content) + 1

\* for content_block in response.content: the next block, whatever happened
NextIndex(i, content, success) == i + 1

\* A plausible slip: only the first block is looked at.
LoopDoneAfterFirst(i, content) == i > 1

\* the for loop over response.content is exhausted
LoopDone(i, content) == i > Len(content)

ResultsMessage(results) == [role |-> "user", content |-> results]

\* A plausible slip: the results overwrite the last message of the chain.
WithResultsOverLast(msgs, results) ==
    IF results # <<>> THEN [msgs EXCEPT ![Len(msgs)] = ResultsMessage(results)] ELSE msgs

\* if tool_results: messages.append({"role": "user", "content": tool_results})
WithResults(msgs, results) ==
    IF results # <<>> THEN Append(msgs, ResultsMessage(results)) ELSE msgs

LogCall(p, params, o) ==
    calls' = [calls EXCEPT ![p] = Append(@, [params |-> params, outcome |-> o])]

\* A plausible slip: the value is kept but the loop is not left.
KeepGoing(p, text) ==
    /\ pc' = Set(pc, p, "round_loop")
    /\ result' = Set(result, p, [raised |-> FALSE, value |-> text])

\* return text
Return(p, text) ==
    /\ pc' = Set(pc, p, "returned")
    /\ result' = Set(result, p, [raised |-> FALSE, value |-> text])

Raise(p, e) ==
    /\ pc' = Set(pc, p, "raised")
    /\ result' = Set(result, p, [raised |-> TRUE, value |-> e])

\* A plausible slip: one message for every handler.
ReturnFinalError(p, prefix, e) == Return(p, Fmt("Error generating final response: ", e))

\* A plausible slip: the handler goes on instead of returning.
RetryOnError(p, prefix, e) == pc' = pc /\ result' = result

\* except Exception as e: return f"{prefix}{str(e)}"
ReturnError(p, prefix, e) == Return(p, Fmt(prefix, e))

\* A plausible slip: the chain is kept on the shared generator.
SetMessagesShared(p, msgs) == messages' = [q \in Procs |-> msgs]

\* messages is a local of the invocation
SetMessages(p, msgs) == messages' = Set(messages, p, msgs)

\* Lines 71-83: the system instruction, the chain, and the choice of path.
generate_response(p) ==
    /\ pc[p] = "idle"
    /\ \E a \in Inputs(p) :
        /\ args' = Set(args, p, a)
        /\ system_content' = Set(system_content, p, SystemContent(a.conversation_history))
        /\ SetMessages(p, <<UserQuery(a.query)>>)
        /\ IF UseSequentialRounds(a.tools, a.tool_manager)
           THEN pc' = Set(pc, p, "round_loop")
           ELSE pc' = Set(pc, p, "simple_call")
    /\ round_count' = Set(round_count, p, 0)
    /\ UNCHANGED <<endpoint, helper, base_params, response, tool_results, execution_success,
                   block_index, result, calls, dispatches, last_sources,
                   sources_seen>>

\* Lines 85-93: the single call without tools; nothing catches its failure.
SimpleCall(p) ==
    /\ pc[p] = "simple_call"
    /\ \E o \in ModelOutcomes(p, Len(calls[p]) + 1, FALSE) :
        /\ LogCall(p, ApiParams(base_params, messages[p], system_content[p]), o)
        /\ IF o.raised THEN Raise(p, o.error) ELSE Return(p, ResponseText(o))
    /\ SpreadBaseParams(messages[p], system_content[p])
    /\ UNCHANGED <<endpoint, helper, args, locals, dispatches, last_sources, sources_seen>>

\* Lines 112-132 and 172-177: one tool-enabled call and what follows it.
RoundCall(p) ==
    /\ pc[p] = "round_loop"
    /\ LoopGuard(round_count[p], args[p].max_rounds)
    /\ \E o \in ModelOutcomes(p, Len(calls[p]) + 1, TRUE) :
        /\ LogCall(p, ApiParamsWithTools(base_params, messages[p],
                                         system_content[p], args[p].tools.list), o)
        /\ IF o.raised
           THEN /\ ReturnError(p, "Error generating response: ", o.error)
                /\ UNCHANGED locals
           ELSE /\ round_count' = Set(round_count, p, IncrementRound(round_count[p]))
                /\ IF ~RequestsTools(o)
                   THEN /\ Return(p, ResponseText(o))
                        /\ UNCHANGED <<system_content, messages, response,
                                       tool_results, execution_success, block_index>>
                   ELSE /\ SetMessages(p, Append(messages[p], AssistantMessage(o)))
                        /\ response' = Set(response, p, o)
                        /\ tool_results' = Set(tool_results, p, <<>>)
                        /\ execution_success' = Set(execution_success, p, TRUE)
                        /\ block_index' = Set(block_index, p, 1)
                        /\ pc' = Set(pc, p, "tools")
                        /\ UNCHANGED <<system_content, result>>
    /\ SpreadBaseParams(messages[p], system_content[p])
    /\ UNCHANGED <<endpoint, helper, args, dispatches, last_sources, sources_seen>>

\* Lines 179-199: one iteration of the loop over response.content.
ExecuteTool(p) ==
    /\ pc[p] = "tools"
    /\ ~LoopDone(block_index[p], response[p].content)
    /\ LET blk == response[p].content[block_index[p]] IN
        IF blk.type = "tool_use"
        THEN \E outcome \in ToolOutcomes(blk.name) :
                /\ dispatches' = [dispatches EXCEPT ![p] =
                        Append(@, [id |-> blk.id, name |-> blk.name,
                                   input |-> blk.input, outcome |-> outcome,
                                   after_call |-> Len(calls[p])])]
                /\ tool_results' = Set(tool_results, p,
                        AddResult(tool_results[p], blk, outcome))
                /\ execution_success' = Set(execution_success, p,
                        SuccessAfter(execution_success[p], outcome))
                /\ RecordSources(blk, outcome)
        ELSE UNCHANGED <<dispatches, tool_results, execution_success, last_sources>>
    /\ block_index' = Set(block_index, p,
            NextIndex(block_index[p], response[p].content, execution_success'[p]))
    /\ UNCHANGED <<endpoint, helper, base_params, pc, args, system_content, messages, round_count,
                   response, result, calls, sources_seen>>

\* Lines 201-205 and 134: the results join the chain; a failure leaves the loop.
ToolsDone(p) ==
    /\ pc[p] = "tools"
    /\ LoopDone(block_index[p], response[p].content)
    /\ SetMessages(p, WithResults(messages[p], tool_results[p]))
    /\ pc' = Set(pc, p, IF execution_success[p] THEN "round_loop" ELSE "tool_error")
    /\ UNCHANGED <<endpoint, helper, base_params, args, system_content, round_count, response,
                   tool_results, execution_success, block_index, result, calls,
                   dispatches, last_sources, sources_seen>>

\* Lines 134-146: the call without tools after a failed tool.
ErrorFinalCall(p) ==
    /\ pc[p] = "tool_error"
    /\ \E o \in ModelOutcomes(p, Len(calls[p]) + 1, FALSE) :
        /\ LogCall(p, ApiParams(base_params, messages[p], system_content[p]), o)
        /\ IF o.raised
           THEN ReturnError(p, "Error generating response: ", o.error)
           ELSE Return(p, ResponseText(o))
    /\ SpreadBaseParams(messages[p], system_content[p])
    /\ UNCHANGED <<endpoint, helper, args, locals, dispatches, last_sources, sources_seen>>

\* Lines 148-158: the call without tools once the budget is used up.
FinalCall(p) ==
    /\ pc[p] = "round_loop"
    /\ ~LoopGuard(round_count[p], args[p].max_rounds)
    /\ \E o \in ModelOutcomes(p, Len(calls[p]) + 1, FALSE) :
        /\ LogCall(p, ApiParams(base_params, messages[p], system_content[p]), o)
        /\ IF o.raised
           THEN ReturnError(p, "Error generating final response: ", o.error)
           ELSE Return(p, ResponseText(o))
    /\ SpreadBaseParams(messages[p], system_content[p])
    /\ UNCHANGED <<endpoint, helper, args, locals, dispatches, last_sources, sources_seen>>

\* The caller reads the Source Record once the loop has returned, then resets it.
ReadSources(p) ==
    /\ pc[p] = "returned"
    /\ sources_seen' = Set(sources_seen, p, last_sources)
    /\ last_sources' = <<>>
    /\ pc' = Set(pc, p, "done")
    /\ UNCHANGED <<endpoint, helper, base_params, args, locals, result, calls, dispatches>>

----------------------------------------------------------------------------
\* Specifications

NoArgs ==
    [query |-> NoStr, conversation_history |-> NoneStr, tools |-> NoneList,
     tool_manager |-> NoneStr, max_rounds |-> 0]

NoResponse == [raised |-> FALSE, error |-> NoStr, stop_reason |-> "", content |-> <<>>]

NoHelper ==
    [pc |-> "idle", initial_response |-> NoResponse,
     base_params |-> [messages |-> <<>>, system |-> <<>>],
     messages |-> <<>>, tool_results |-> <<>>, block_index |-> 1,
     calls |-> <<>>, dispatches |-> <<>>,
     result |-> [raised |-> FALSE, value |-> NoStr]]

InitWith(requests) ==
    /\ base_params = InitBaseParams
    /\ pc = [p \in Procs |-> IF p \in requests THEN "idle" ELSE "absent"]
    /\ args = [p \in Procs |-> NoArgs]
    /\ system_content = [p \in Procs |-> <<>>]
    /\ messages = [p \in Procs |-> <<>>]
    /\ round_count = [p \in Procs |-> 0]
    /\ response = [p \in Procs |-> NoResponse]
    /\ tool_results = [p \in Procs |-> <<>>]
    /\ execution_success = [p \in Procs |-> TRUE]
    /\ block_index = [p \in Procs |-> 1]
    /\ result = [p \in Procs |-> [raised |-> FALSE, value |-> NoStr]]
    /\ calls = [p \in Procs |-> <<>>]
    /\ dispatches = [p \in Procs |-> <<>>]
    /\ last_sources = <<>>
    /\ sources_seen = [p \in Procs |-> <<>>]
    /\ api_log = <<>>
    /\ create_session_calls = 0
    /\ query_calls = <<>>
    /\ helper = NoHelper

\* One request at a time.
Init == InitWith({1})

\* Two requests in flight on the same AIGenerator and tool manager.
InitConcurrent == InitWith(Procs)

Step(p) ==
    \/ generate_response(p)
    \/ SimpleCall(p)
    \/ RoundCall(p)
    \/ ExecuteTool(p)
    \/ ToolsDone(p)
    \/ ErrorFinalCall(p)
    \/ FinalCall(p)
    \/ ReadSources(p)

Next == \E p \in Procs : Step(p)

Spec == Init /\ [][Next]_vars

SpecConcurrent == InitConcurrent /\ [][Next]_vars

\* Every call and every dispatch returns or raises, so a request that can
\* take a step eventually takes one.
FairSpec == Init /\ [][Next]_vars /\ \A p \in Procs : WF_vars(Step(p))

----------------------------------------------------------------------------
\* _handle_tool_execution, the single-round helper (lines 207-254). It is run
\* on the first response of invocation 1 and on the parameters of that call,
\* against the same tool manager and the same provider: a tool and the model
\* answer the helper as they answered the round loop.

\* A plausible slip: no copy is taken, the caller's list is appended to.
AppendInPlace(h, msg) ==
    [h EXCEPT !.messages = Append(@, msg), !.base_params.messages = Append(@, msg)]

\* messages = base_params["messages"].copy(); messages.append(msg)
AppendToCopy(h, msg) == [h EXCEPT !.messages = Append(@, msg)]

\* How the tool manager answered the round loop for this block.
SameToolOutcome(blk) ==
    {dispatches[1][j].outcome :
        j \in {i \in 1 .. Len(dispatches[1]) : dispatches[1][i].id = blk.id}}

\* How the provider answers the helper's call: as it answered the round loop
\* when the request is the same.
SameModelOutcomes(params) ==
    IF Len(calls[1]) >= 2 /\ calls[1][2].params = params
    THEN {calls[1][2].outcome}
    ELSE ModelOutcomes(1, 2, FALSE)

\* Lines 221-227: the copy of the messages and the assistant's response.
handle_tool_execution ==
    /\ helper.pc = "idle"
    /\ pc[1] \in {"returned", "done"}
    /\ calls[1] # <<>>
    /\ "tools" \in DOMAIN calls[1][1].params
    /\ ~calls[1][1].outcome.raised
    /\ RequestsTools(calls[1][1].outcome)
    /\ helper' = AppendToCopy(
            [helper EXCEPT !.pc = "tools",
                           !.initial_response = calls[1][1].outcome,
                           !.base_params = calls[1][1].params,
                           !.messages = calls[1][1].params.messages,
                           !.tool_results = <<>>,
                           !.block_index = 1],
            AssistantMessage(calls[1][1].outcome))
    /\ UNCHANGED <<endpoint, rounds>>

\* Lines 228-240: one iteration of the loop; a raising tool is not caught.
HandleExecuteTool ==
    /\ helper.pc = "tools"
    /\ ~LoopDone(helper.block_index, helper.initial_response.content)
    /\ LET blk == helper.initial_response.content[helper.block_index] IN
        IF blk.type = "tool_use"
        THEN \E outcome \in SameToolOutcome(blk) :
                /\ helper' =
                    LET d == [id |-> blk.id, name |-> blk.name, input |-> blk.input,
                              outcome |-> outcome]
                    IN  IF outcome = "ok"
                        THEN [helper EXCEPT
                                !.dispatches = Append(@, d),
                                !.tool_results = Append(@, ToolResultOk(blk, ToolOutput(blk))),
                                !.block_index = @ + 1]
                        ELSE [helper EXCEPT
                                !.dispatches = Append(@, d),
                                !.pc = "raised",
                                !.result = [raised |-> TRUE, value |-> ToolError(blk)]]
                /\ RecordSources(blk, outcome)
        ELSE /\ helper' = [helper EXCEPT !.block_index = @ + 1]
             /\ UNCHANGED last_sources
    /\ UNCHANGED <<endpoint, base_params, pc, args, locals, result, calls,
                   dispatches, sources_seen>>

\* Lines 242-254: the results join the copy, the call without tools is made
\* and its text returned; nothing catches a failure of the call.
HandleFinalCall ==
    /\ helper.pc = "tools"
    /\ LoopDone(helper.block_index, helper.initial_response.content)
    /\ LET msgs == WithResults(helper.messages, helper.tool_results)
           final_params == ApiParams(base_params, msgs, helper.base_params.system)
       IN  \E o \in SameModelOutcomes(final_params) :
            helper' = [helper EXCEPT
                !.messages = msgs,
                !.calls = Append(@, [params |-> final_params, outcome |-> o]),
                !.pc = IF o.raised THEN "raised" ELSE "returned",
                !.result = IF o.raised THEN [raised |-> TRUE, value |-> o.error]
                           ELSE [raised |-> FALSE, value |-> ResponseText(o)]]
    /\ SpreadBaseParams(helper.messages, helper.base_params.system)
    /\ UNCHANGED <<endpoint, pc, args, locals, result, calls, dispatches,
                   last_sources, sources_seen>>

\* The round loop of one request, and the helper run on its first response.
NextHelper ==
    \/ Next
    \/ handle_tool_execution
    \/ HandleExecuteTool
    \/ HandleFinalCall

SpecHelper == Init /\ [][NextHelper]_vars

----------------------------------------------------------------------------
\* The /api/query endpoint of the test application (tests/conftest.py)

\* JSON values of a request body; JAbsent stands for a key that is not there.
JAbsent == [t |-> "absent", v |-> ""]

JNull == [t |-> "null", v |-> ""]

JInt == [t |-> "int", v |-> "123"]

JStr(s) == [t |-> "str", v |-> s]

\* The bodies the test client posts: with and without a query, a query of the
\* wrong type, and a session id that is absent, null, empty or a name.
Bodies ==
    [query : {JAbsent, JInt, JStr(""), JStr("Test query")},
     session_id : {JAbsent, JNull, JStr(""), JStr("test_session_456")}]

\* class QueryRequest(BaseModel): query: str; session_id: Optional[str] = None
ValidQueryRequest(body) ==
    /\ body.query.t = "str"
    /\ body.session_id.t \in {"absent", "null", "str"}

QueryRequest(body) ==
    [query |-> body.query.v,
     session_id |-> IF body.session_id.t = "str" THEN body.session_id.v ELSE NoneStr]

\* mock_rag.session_manager.create_session.return_value
CreatedSessionId == "test_session_123"

\* mock_rag.query.return_value
MockQueryResult == [answer |-> "Test response", sources |-> <<"Test Course 1">>]

\* A plausible slip: only None asks for a new session.
SessionIdIsNone(session_id) == session_id = NoneStr

\* if not session_id:
NotSessionId(session_id) == ~TruthyStr(session_id)

\* The answer of the framework to a body that QueryRequest rejects.
UnprocessableEntity == [status |-> 422, json |-> [detail |-> "validation error"]]

QueryResponse(answer, sources, session_id) ==
    [status |-> 200,
     json |-> [answer |-> answer, sources |-> sources, session_id |-> session_id]]

\* POST /api/query: validation, then the handler. The mocks return fixed
\* values, so the handler's except branch is never entered.
query_documents ==
    /\ Len(api_log) < MaxRequests
    /\ \E body \in Bodies :
        IF ~ValidQueryRequest(body)
        THEN /\ api_log' = Append(api_log, [body |-> body, response |-> UnprocessableEntity])
             /\ UNCHANGED <<create_session_calls, query_calls>>
        ELSE LET request == QueryRequest(body)
                 create == NotSessionId(request.session_id)
                 session_id == IF create THEN CreatedSessionId ELSE request.session_id
             IN  /\ create_session_calls' = create_session_calls + (IF create THEN 1 ELSE 0)
                 /\ query_calls' = Append(query_calls, <<request.query, session_id>>)
                 /\ api_log' = Append(api_log,
                        [body |-> body,
                         response |-> QueryResponse(MockQueryResult.answer,
                                                    MockQueryResult.sources, session_id)])
    /\ UNCHANGED generator

\* No generator request is in flight; the test client posts its requests.
InitApi == InitWith({})

NextApi == query_documents

SpecApi == InitApi /\ [][NextApi]_vars

----------------------------------------------------------------------------
\* Vocabulary of the properties

Invoked(p) == pc[p] \notin {"absent", "idle"}

Returned(p) == pc[p] \in {"returned", "done"}

Terminated(p) == pc[p] \in {"returned", "done", "raised"}

\* The invocation went into _execute_sequential_rounds.
InRoundLoop(p) ==
    /\ Invoked(p)
    /\ args[p].tools.some /\ args[p].tools.list # <<>>
    /\ args[p].tool_manager # NoneStr

WithTools(c) == "tools" \in DOMAIN c.params

ToolCalls(p) == {k \in 1 .. Len(calls[p]) : WithTools(calls[p][k])}

Range(seq) == {seq[j] : j \in 1 .. Len(seq)}

ToolUseBlocks(content) == {j \in 1 .. Len(content) : content[j].type = "tool_use"}

IsErrorString(s) ==
    /\ s.pre # <<>>
    /\ s.pre[1] \in {"Error generating response: ", "Error generating final response: "}

Max0(n) == IF n < 0 THEN 0 ELSE n

\* Every tool-enabled response asked for tools and nothing failed.
AlwaysAskedForTools(p) ==
    /\ InRoundLoop(p)
    /\ Returned(p)
    /\ \A k \in 1 .. Len(calls[p]) :
        /\ ~calls[p][k].outcome.raised
        /\ WithTools(calls[p][k]) => calls[p][k].outcome.stop_reason = "tool_use"
    /\ \A d \in Range(dispatches[p]) : d.outcome = "ok"

RoundsThenOneFinal(p) ==
    /\ ToolCalls(p) = 1 .. args[p].max_rounds
    /\ Cardinality(ToolCalls(p)) = args[p].max_rounds
    /\ Len(calls[p]) = args[p].max_rounds + 1
    /\ ~WithTools(calls[p][Len(calls[p])])

----------------------------------------------------------------------------
\* C1 as stated: whenever every tool-enabled response requests tool use and
\* nothing fails, exactly max_rounds tool-enabled calls are followed by exactly
\* one call without tools, max_rounds + 1 calls in all.
C1_AsStated == \A p \in Procs : AlwaysAskedForTools(p) => RoundsThenOneFinal(p)

\* C1: for a round budget max_rounds >= 0, whenever every tool-enabled response
\* requests tool use and nothing fails, exactly max_rounds tool-enabled calls
\* are followed by exactly one call without tools, max_rounds + 1 calls in all.
C1_RoundsPlusOne ==
    \A p \in Procs :
        AlwaysAskedForTools(p) /\ args[p].max_rounds >= 0 => RoundsThenOneFinal(p)

C1_Witness ==
    /\ AlwaysAskedForTools(1)
    /\ args[1].max_rounds = MaxRounds
    /\ Len(calls[1]) = MaxRounds + 1

----------------------------------------------------------------------------
\* The calls after which a dispatch raised.
FailedRounds(p) == {d.after_call : d \in {e \in Range(dispatches[p]) : e.outcome = "raise"}}

\* The chain of call k + 1 is the chain of call k, the assistant's response and
\* one user message holding a result for every tool-use block of the response.
ChainAfterRound(p, k) ==
    LET before == calls[p][k].params.messages
        after == calls[p][k + 1].params.messages
        resp == calls[p][k].outcome
    IN  /\ Len(after) = Len(before) + 2
        /\ SubSeq(after, 1, Len(before)) = before
        /\ after[Len(before) + 1] = AssistantMessage(resp)
        /\ after[Len(after)].role = "user"
        /\ Len(after[Len(after)].content) = Cardinality(ToolUseBlocks(resp.content))
        /\ \A r \in Range(after[Len(after)].content) : r.type = "tool_result"

\* C2: once a dispatch of a round has raised, the loop makes exactly one more
\* model call, without tools, on the chain with all results of that round
\* appended, and returns its text; no tool-enabled call and no dispatch follows,
\* whatever is left of the budget.
C2_OneFinalCallAfterToolError ==
    \A p \in Procs : \A k \in FailedRounds(p) :
        /\ pc[p] # "raised"
        /\ Len(calls[p]) <= k + 1
        /\ \A d \in Range(dispatches[p]) : d.after_call <= k
        /\ Len(calls[p]) = k + 1 =>
            /\ ~WithTools(calls[p][k + 1])
            /\ "tool_choice" \notin DOMAIN calls[p][k + 1].params
            /\ ChainAfterRound(p, k)
            /\ Returned(p)
        /\ Returned(p) =>
            /\ Len(calls[p]) = k + 1
            /\ ~result[p].raised
            /\ ~calls[p][k + 1].outcome.raised =>
                    result[p].value = ResponseText(calls[p][k + 1].outcome)

\* A dispatch raised in round 1 of 2, a sibling dispatch succeeded, and the
\* invocation returned the text of the call without tools.
C2_Witness ==
    /\ 1 \in FailedRounds(1)
    /\ args[1].max_rounds > round_count[1]
    /\ \E d \in Range(dispatches[1]) : d.outcome = "ok"
    /\ Returned(1)
    /\ ~calls[1][2].outcome.raised

----------------------------------------------------------------------------
\* C3: a failed model call never escapes generate_response as an exception:
\* on every path the answer is then a descriptive error string.
C3_NeverRaises ==
    \A p \in Procs :
        /\ pc[p] # "raised"
        /\ (Terminated(p) /\ \E c \in Range(calls[p]) : c.outcome.raised)
                => ~result[p].raised /\ IsErrorString(result[p].value)

----------------------------------------------------------------------------
\* The tool-result blocks of message m that answer tool-use id.
Answers(m, id) ==
    {j \in 1 .. Len(m.content) :
        m.content[j].type = "tool_result" /\ m.content[j].tool_use_id = id}

\* Every tool-use block of chain's assistant messages has exactly one result,
\* in the user message right after it, and every result answers a tool-use
\* block of the message right before it.
Paired(chain) ==
    /\ \A j \in 1 .. Len(chain) :
        chain[j].role = "assistant" =>
            \A b \in ToolUseBlocks(chain[j].content) :
                LET id == chain[j].content[b].id IN
                /\ j < Len(chain)
                /\ chain[j + 1].role = "user"
                /\ Cardinality(Answers(chain[j + 1], id)) = 1
                /\ \A i \in 1 .. Len(chain) : i # j + 1 => Answers(chain[i], id) = {}
    /\ \A j \in 1 .. Len(chain) : \A r \in Range(chain[j].content) :
        r.type = "tool_result" =>
            /\ j > 1
            /\ chain[j - 1].role = "assistant"
            /\ \E b \in ToolUseBlocks(chain[j - 1].content) :
                    chain[j - 1].content[b].id = r.tool_use_id

\* C4: the chain handed to every model call after the first pairs each earlier
\* tool-use block with exactly one tool-result of the same id in the next user
\* message, and holds no tool-result without its tool-use block.
C4_ToolUseAnswered ==
    \A p \in Procs : \A k \in 2 .. Len(calls[p]) : Paired(calls[p][k].params.messages)

\* A second call whose chain holds a response with two tool-use blocks, one of
\* them failed.
C4_Witness ==
    /\ Len(calls[1]) >= 2
    /\ Cardinality(ToolUseBlocks(calls[1][1].outcome.content)) = 2
    /\ \E d \in Range(dispatches[1]) : d.outcome = "raise"

----------------------------------------------------------------------------
\* The first response came from round 1 and did not ask for tools.
FirstRoundAnswers(p) ==
    /\ Len(calls[p]) >= 1
    /\ WithTools(calls[p][1])
    /\ ~calls[p][1].outcome.raised
    /\ calls[p][1].outcome.stop_reason # "tool_use"

----------------------------------------------------------------------------
\* No tools, an empty tool list, or no tool manager.
NoToolsCase(p) ==
    /\ Invoked(p)
    /\ \/ ~args[p].tools.some
       \/ args[p].tools.list = <<>>
       \/ args[p].tool_manager = NoneStr

\* C6: without tools, with an empty tool list or without a tool manager,
\* generate_response makes exactly one model call, with neither tools nor
\* tool_choice, dispatches nothing and returns the response's text verbatim.
C6_SingleCallWithoutTools ==
    \A p \in Procs :
        NoToolsCase(p) =>
            /\ Len(calls[p]) <= 1
            /\ dispatches[p] = <<>>
            /\ \A c \in Range(calls[p]) :
                /\ "tools" \notin DOMAIN c.params
                /\ "tool_choice" \notin DOMAIN c.params
                /\ c.params.messages = <<UserQuery(args[p].query)>>
            /\ Len(calls[p]) = 1 <=> Terminated(p)
            /\ (Terminated(p) /\ ~calls[p][1].outcome.raised) =>
                /\ Returned(p)
                /\ ~result[p].raised
                /\ result[p].value = calls[p][1].outcome.content[1].text

\* A tool list without a tool manager: one call, its text returned.
C6_Witness ==
    /\ NoToolsCase(1)
    /\ args[1].tools.list # <<>>
    /\ Returned(1)
    /\ result[1].value = calls[1][1].outcome.content[1].text

----------------------------------------------------------------------------
----------------------------------------------------------------------------
\* The is_error flag the provider reads from a tool-result block: false when
\* the block carries none.
IsError(blk) == IF "is_error" \in DOMAIN blk THEN blk.is_error ELSE FALSE

\* C8: a dispatch that raises leaves a tool-result block with the tool-use id,
\* an error string as content and is_error = true; a dispatch that succeeds
\* leaves one with is_error = false.
C8_ErrorResultMarked ==
    \A p \in Procs : \A d \in Range(dispatches[p]) :
        d.after_call = Len(calls[p]) /\ pc[p] = "tools" =>
            \E r \in Range(tool_results[p]) :
                /\ r.type = "tool_result"
                /\ r.tool_use_id = d.id
                /\ IsError(r) = (d.outcome = "raise")
                /\ d.outcome = "raise" => r.content.pre[1] = "Tool execution failed: "

----------------------------------------------------------------------------
\* The Source Record of p's own latest search.
OwnSources(p) ==
    LET mine == {j \in 1 .. Len(dispatches[p]) :
                    /\ dispatches[p][j].name = "search_course_content"
                    /\ dispatches[p][j].outcome = "ok"}
    IN  IF mine = {} THEN <<>>
        ELSE <<dispatches[p][CHOOSE j \in mine : \A i \in mine : i <= j].id>>

\* C9: of two concurrent invocations that dispatch searches through one shared
\* tool manager, each caller reads the Source Record of its own search and
\* never what the other invocation's search wrote.
C9_OwnSourcesOnly ==
    \A p \in Procs :
        (pc[p] = "done" /\ OwnSources(p) # <<>>) => sources_seen[p] = OwnSources(p)

----------------------------------------------------------------------------
\* The invocation a block belongs to.
Owner(blk) ==
    CASE blk.type = "tool_use" -> blk.id[1]
      [] blk.type = "tool_result" -> blk.tool_use_id[1]
      [] OTHER -> blk.text.p

\* The results of the dispatches p made after its k-th model call, in order.
ResultsOfRound(p, k) ==
    LET ds == SelectSeq(dispatches[p], LAMBDA d : d.after_call = k)
    IN  [j \in 1 .. Len(ds) |-> ToolResult(ds[j], ds[j].outcome)]

\* What an invocation running alone with the same responses hands to its
\* k-th model call, and what it then answers.
IsolatedChain(p, k) ==
    IF k = 1 THEN calls[p][k].params.messages = <<UserQuery(args[p].query)>>
    ELSE calls[p][k].params.messages =
            WithResults(Append(calls[p][k - 1].params.messages,
                               AssistantMessage(calls[p][k - 1].outcome)),
                        ResultsOfRound(p, k - 1))

IsolatedAnswer(p) ==
    LET last == calls[p][Len(calls[p])] IN
    IF last.outcome.raised
    THEN IF WithTools(last) \/ Len(calls[p]) - 1 \in FailedRounds(p)
         THEN result[p].value = Fmt("Error generating response: ", last.outcome.error)
         ELSE result[p].value = Fmt("Error generating final response: ", last.outcome.error)
    ELSE result[p].value = ResponseText(last.outcome)

\* C10: two concurrent invocations on one AIGenerator keep their chains and
\* system instructions apart: every chain handed to a model call holds only the
\* invocation's own query, responses and tool results, and the calls and the
\* answer are those of the invocation running alone.
C10_IndependentChains ==
    \A p \in Procs :
        /\ \A k \in 1 .. Len(calls[p]) :
            /\ \A m \in Range(calls[p][k].params.messages) :
                \A b \in Range(m.content) : Owner(b) = p
            /\ calls[p][k].params.system = SystemContent(args[p].conversation_history)
            /\ IsolatedChain(p, k)
            /\ WithTools(calls[p][k]) <=>
                /\ InRoundLoop(p)
                /\ k <= args[p].max_rounds
                /\ k - 1 \notin FailedRounds(p)
        /\ (Returned(p) /\ InRoundLoop(p)) => IsolatedAnswer(p)

\* Both invocations are in their second round at the same time.
C10_Witness ==
    /\ Len(calls[1]) = 2 /\ pc[1] = "tools"
    /\ Len(calls[2]) = 2 /\ pc[2] = "tools"
    /\ Len(dispatches[1]) = 1 /\ Len(dispatches[2]) = 1

----------------------------------------------------------------------------
\* Round k answered without asking for tools.
AnswersInRound(p, k) ==
    /\ k <= Len(calls[p])
    /\ WithTools(calls[p][k])
    /\ ~calls[p][k].outcome.raised
    /\ calls[p][k].outcome.stop_reason # "tool_use"

\* C11: when rounds 1..k-1 request tools (every dispatch succeeding) and round
\* k <= max_rounds answers without tool use, exactly k model calls are made,
\* all tool-enabled, tools are dispatched only in rounds 1..k-1, no further
\* call without tools is made and the answer is round k's text.
C11_FastExit ==
    \A p \in Procs : \A k \in 1 .. Len(calls[p]) :
        AnswersInRound(p, k) =>
            /\ k <= args[p].max_rounds
            /\ Len(calls[p]) = k
            /\ \A j \in 1 .. k : WithTools(calls[p][j])
            /\ \A j \in 1 .. k - 1 : calls[p][j].outcome.stop_reason = "tool_use"
            /\ \A d \in Range(dispatches[p]) : d.after_call < k /\ d.outcome = "ok"
            /\ round_count[p] = k
            /\ Returned(p)
            /\ ~result[p].raised
            /\ result[p].value = calls[p][k].outcome.content[1].text

\* A budget of 2, one search in round 1, text in round 2.
C11_Witness ==
    /\ args[1].max_rounds = 2
    /\ AnswersInRound(1, 2)
    /\ Len(dispatches[1]) = 1
    /\ dispatches[1][1].name = "search_course_content"
    /\ Returned(1)

----------------------------------------------------------------------------
HasFailedCall(p) == \E c \in Range(calls[p]) : c.outcome.raised

\* C12: a failed model call is never retried: once a model call of an
\* invocation has failed, the invocation makes no further model call and no
\* further tool dispatch.
C12_NoRetry ==
    [][\A p \in Procs :
        HasFailedCall(p) => calls'[p] = calls[p] /\ dispatches'[p] = dispatches[p]]_vars

\* The second round's call failed after a round of tools, and the caller has
\* gone on.
C12_Witness ==
    /\ Len(calls[1]) = 2
    /\ calls[1][2].outcome.raised
    /\ WithTools(calls[1][2])
    /\ args[1].max_rounds > round_count[1]
    /\ pc[1] = "done"

----------------------------------------------------------------------------
\* The tool-use blocks of a content, in order.
ToolUses(content) == SelectSeq(content, LAMBDA b : b.type = "tool_use")

\* The dispatches made after the k-th model call, in order.
DispatchesOfRound(p, k) == SelectSeq(dispatches[p], LAMBDA d : d.after_call = k)

\* C13: when a tool call of a round fails, every other tool-use block of the
\* round is still dispatched, those before and those after it, and the call
\* without tools that follows sees a chain whose last user message holds the
\* results of all of them, the successful outputs and the error result.
C13_SiblingsStillDispatched ==
    \A p \in Procs : \A k \in FailedRounds(p) :
        (pc[p] = "tool_error" \/ Len(calls[p]) = k + 1) =>
            LET uses == ToolUses(calls[p][k].outcome.content)
                ds == DispatchesOfRound(p, k)
                chain == IF Len(calls[p]) = k + 1
                         THEN calls[p][k + 1].params.messages ELSE messages[p]
                last == chain[Len(chain)]
            IN  /\ Len(ds) = Len(uses)
                /\ \A j \in 1 .. Len(uses) : ds[j].id = uses[j].id
                /\ last.role = "user"
                /\ Len(last.content) = Len(uses)
                /\ \A j \in 1 .. Len(uses) :
                    /\ last.content[j].tool_use_id = uses[j].id
                    /\ last.content[j].content.pre =
                        IF ds[j].outcome = "ok" THEN <<"Tool output">>
                        ELSE <<"Tool execution failed: ",
                               IF uses[j].name \in RegisteredTools
                               THEN "handler failed" ELSE "UnknownTool">>

\* The first of two tool calls failed, the second succeeded, and the call
\* without tools has been made.
C13_Witness ==
    /\ 1 \in FailedRounds(1)
    /\ Len(dispatches[1]) = 2
    /\ dispatches[1][1].outcome = "raise"
    /\ dispatches[1][2].outcome = "ok"
    /\ Len(calls[1]) = 2

----------------------------------------------------------------------------
\* Every dispatch recorded so far was made for a block of the latest response,
\* and every earlier round had all its tool-use blocks dispatched before the
\* next model call was made.
DispatchesBetweenCalls(p) ==
    /\ \A d \in Range(dispatches[p]) : d.id[2] = d.after_call
    /\ \A k \in 1 .. Len(calls[p]) - 1 :
        LET uses == ToolUses(calls[p][k].outcome.content)
            ds == DispatchesOfRound(p, k)
        IN  /\ Len(ds) = Len(uses)
            /\ \A j \in 1 .. Len(uses) : ds[j].id = uses[j].id

\* A step of an invocation is one model call or one dispatch, never both; a
\* dispatch follows a call that returned, and no call is made while the loop
\* over the blocks of a response is running.
OneEventPerStep(p) ==
    /\ Len(calls'[p]) + Len(dispatches'[p]) <= Len(calls[p]) + Len(dispatches[p]) + 1
    /\ Len(calls'[p]) >= Len(calls[p])
    /\ Len(dispatches'[p]) >= Len(dispatches[p])
    /\ Len(dispatches'[p]) > Len(dispatches[p]) =>
        /\ Len(calls[p]) >= 1
        /\ ~calls[p][Len(calls[p])].outcome.raised
        /\ dispatches'[p][Len(dispatches'[p])].after_call = Len(calls[p])
    /\ Len(calls'[p]) > Len(calls[p]) => pc[p] # "tools"

\* C14: within one invocation the events are strictly ordered: the dispatches
\* of round k come after model call k has returned and before the next model
\* call starts, all of them are over before that call, and no two calls or
\* dispatches of the invocation overlap.
C14_StrictOrder ==
    /\ [](\A p \in Procs : DispatchesBetweenCalls(p))
    /\ [][\A p \in Procs : OneEventPerStep(p)]_vars

\* Two rounds of tools, the first with two dispatches, then the final call.
C14_Witness ==
    /\ Len(calls[1]) = 3
    /\ Len(DispatchesOfRound(1, 1)) = 2
    /\ Len(DispatchesOfRound(1, 2)) >= 1

----------------------------------------------------------------------------
\* The call a step of p adds to the history.
NewCall(p) == calls'[p][Len(calls'[p])]

\* The step is made inside the round loop: the budget is not used up and no
\* tool has failed.
InsideRoundLoop(p) ==
    pc[p] = "round_loop" /\ round_count[p] < args[p].max_rounds

\* C15: every model call made inside the round loop carries the full tool list
\* with tool_choice auto, and every final call, after the budget is used up or
\* after a tool error, carries neither tools nor tool_choice: a call is
\* tool-enabled exactly when it is a round call.
C15_ToolsOnlyInRounds ==
    [][\A p \in Procs :
        Len(calls'[p]) > Len(calls[p]) =>
            IF InsideRoundLoop(p)
            THEN /\ "tools" \in DOMAIN NewCall(p).params
                 /\ NewCall(p).params.tools = args[p].tools.list
                 /\ "tool_choice" \in DOMAIN NewCall(p).params
                 /\ NewCall(p).params.tool_choice = [type |-> "auto"]
            ELSE /\ "tools" \notin DOMAIN NewCall(p).params
                 /\ "tool_choice" \notin DOMAIN NewCall(p).params]_vars

\* Round calls up to the budget, then the final call.
C15_Witness ==
    /\ args[1].max_rounds = MaxRounds
    /\ Len(calls[1]) = MaxRounds + 1
    /\ WithTools(calls[1][MaxRounds])
    /\ ~WithTools(calls[1][MaxRounds + 1])

----------------------------------------------------------------------------
IsPrefix(s, t) == Len(s) <= Len(t) /\ SubSeq(t, 1, Len(s)) = s

\* The chain starts with the query, and what an earlier call was handed is the
\* beginning of what every later call is handed.
ChainsNested(p) ==
    /\ Invoked(p) =>
        /\ Len(messages[p]) >= 1
        /\ messages[p][1] = [role |-> "user",
                             content |-> <<[type |-> "str", text |-> args[p].query]>>]
    /\ \A k \in 1 .. Len(calls[p]) :
        /\ calls[p][k].params.messages[1].role = "user"
        /\ calls[p][k].params.messages[1].content[1].text = args[p].query
        /\ \A j \in 1 .. k - 1 :
            IsPrefix(calls[p][j].params.messages, calls[p][k].params.messages)
        /\ IsPrefix(calls[p][k].params.messages, messages[p])

\* C16: within one invocation the chain only grows: its first element is always
\* the user message holding the query, and the chain handed to a model call is
\* a prefix of the chain handed to every later call; no message is removed,
\* reordered or rewritten.
C16_ChainOnlyGrows ==
    /\ [](\A p \in Procs : ChainsNested(p))
    /\ [][\A p \in Procs : Invoked(p) => IsPrefix(messages[p], messages'[p])]_vars

\* Three calls on a chain that grew from one message to five.
C16_Witness ==
    /\ Len(calls[1]) = 3
    /\ Len(calls[1][1].params.messages) = 1
    /\ Len(calls[1][2].params.messages) = 3
    /\ Len(calls[1][3].params.messages) = 5

----------------------------------------------------------------------------
\* C17: the system instruction is built once per invocation and is the same on
\* every model call of it: the base instruction followed by the labeled
\* previous-conversation section holding the history verbatim when the history
\* is non-empty, the base instruction alone when it is absent or empty.
C17_SystemInstruction ==
    \A p \in Procs :
        LET h == args[p].conversation_history
            expected == IF h = NoneStr \/ h = ""
                        THEN <<"SYSTEM_PROMPT">>
                        ELSE <<"SYSTEM_PROMPT", "\n\nPrevious conversation:\n", h>>
        IN  /\ Invoked(p) => system_content[p] = expected
            /\ \A c \in Range(calls[p]) : c.params.system = expected

\* A round call and a final call of an invocation with a history, and of one
\* with an empty history.
C17_Witness ==
    /\ args[1].conversation_history = "User: hi Assistant: hello"
    /\ Len(calls[1]) = 2
    /\ WithTools(calls[1][1])
    /\ ~WithTools(calls[1][2])
    /\ Len(calls[1][2].params.system) = 3

----------------------------------------------------------------------------
\* The request handled by this step and its response.
Handled == api_log' # api_log

LastBody == api_log'[Len(api_log')].body

LastResponse == api_log'[Len(api_log')].response

\* C18 as stated, read for the requests the endpoint accepts: a request
\* carrying a session id is answered with that id and creates no session; a
\* request without one, or with null, is answered with the id create_session
\* returned.
C18_AsStated ==
    [][Handled /\ LastBody.query.t = "str" =>
        IF LastBody.session_id.t = "str"
        THEN /\ LastResponse.status = 200
             /\ LastResponse.json.session_id = LastBody.session_id.v
             /\ create_session_calls' = create_session_calls
        ELSE /\ LastResponse.status = 200
             /\ LastResponse.json.session_id = CreatedSessionId
             /\ LastResponse.json.session_id # NoneStr
             /\ create_session_calls' = create_session_calls + 1]_vars

\* C18: for any sequence of /api/query requests, a request the endpoint accepts
\* (its query is a string) is answered with its own session id, creating no
\* session, when that id is a non-empty string, and with the non-null id that
\* one call of create_session returned when the id is missing, null or empty;
\* a request the endpoint rejects is answered 422 and creates no session.
C18_SessionKeptOrCreated ==
    [][Handled =>
        IF LastBody.query.t # "str"
        THEN /\ LastResponse.status = 422
             /\ create_session_calls' = create_session_calls
             /\ query_calls' = query_calls
        ELSE /\ LastResponse.status = 200
             /\ query_calls' = Append(query_calls,
                                      <<LastBody.query.v, LastResponse.json.session_id>>)
             /\ IF LastBody.session_id.t = "str" /\ LastBody.session_id.v # ""
                THEN /\ LastResponse.json.session_id = LastBody.session_id.v
                     /\ create_session_calls' = create_session_calls
                ELSE /\ LastResponse.json.session_id = CreatedSessionId
                     /\ LastResponse.json.session_id # NoneStr
                     /\ create_session_calls' = create_session_calls + 1]_vars

\* A request with a session id was answered with it, then a request with an
\* empty session id was answered with the created one: one session was created.
C18_Witness ==
    /\ Len(api_log) = 2
    /\ api_log[1].body.session_id = JStr("test_session_456")
    /\ api_log[1].response.status = 200
    /\ api_log[1].response.json.session_id = "test_session_456"
    /\ api_log[2].body.session_id = JStr("")
    /\ api_log[2].response.status = 200
    /\ api_log[2].response.json.session_id = CreatedSessionId
    /\ create_session_calls = 1


----------------------------------------------------------------------------
\* The roles of a chain alternate, from a user message to a user message.
Alternating(chain) ==
    /\ Len(chain) % 2 = 1
    /\ \A j \in 1 .. Len(chain) :
        chain[j].role = (IF j % 2 = 1 THEN "user" ELSE "assistant")

\* The k-th call was a round call answered with stop_reason tool_use.
ToolRound(p, k) ==
    /\ WithTools(calls[p][k])
    /\ ~calls[p][k].outcome.raised
    /\ calls[p][k].outcome.stop_reason = "tool_use"

\* C19: each tool round appends exactly two messages to the chain, the
\* assistant's tool-use response and one user message with all the results of
\* the round, so the chain of every model call alternates between user and
\* assistant and starts and ends with a user message, also after a tool_use
\* response that holds no tool-use block.
C19_TwoMessagesPerRound ==
    \A p \in Procs : \A k \in 1 .. Len(calls[p]) :
        /\ Alternating(calls[p][k].params.messages)
        /\ (k > 1 /\ ToolRound(p, k - 1)) =>
            LET before == calls[p][k - 1].params.messages
                after == calls[p][k].params.messages
            IN  /\ Len(after) = Len(before) + 2
                /\ after[Len(before) + 1] = AssistantMessage(calls[p][k - 1].outcome)
                /\ after[Len(after)] = ResultsMessage(ResultsOfRound(p, k - 1))


----------------------------------------------------------------------------
\* The tool-use blocks among the first n blocks of a content, in order.
ToolUsesBefore(content, n) == ToolUses(SubSeq(content, 1, n))

\* The result the claim states for a tool-use block and the outcome of its
\* dispatch.
StatedResult(blk, outcome) ==
    [type |-> "tool_result", tool_use_id |-> blk.id,
     content |-> IF outcome = "ok"
                 THEN ToolOutput(blk)
                 ELSE [ToolError(blk) EXCEPT
                          !.pre = <<"Tool execution failed: ">> \o @]]

\* The results collected so far, and the dispatches behind them, follow the
\* tool-use blocks the loop has gone through.
ResultsFollowBlocks(p) ==
    LET k == Len(calls[p])
        uses == ToolUsesBefore(response[p].content, block_index[p] - 1)
        ds == DispatchesOfRound(p, k)
    IN  /\ Len(tool_results[p]) = Len(uses)
        /\ Len(ds) = Len(uses)
        /\ \A j \in 1 .. Len(uses) :
            /\ ds[j].name = uses[j].name
            /\ ds[j].input = uses[j].input
            /\ ds[j].id = uses[j].id
            /\ tool_results[p][j] = StatedResult(uses[j], ds[j].outcome)

\* The user message that follows the k-th call's response holds the results of
\* its tool-use blocks, in the order of the blocks.
MessageFollowsBlocks(p, k) ==
    LET resp == calls[p][k].outcome
        uses == ToolUses(resp.content)
        ds == DispatchesOfRound(p, k)
        chain == calls[p][k + 1].params.messages
        last == chain[Len(chain)]
    IN  uses # <<>> =>
            /\ last.role = "user"
            /\ Len(last.content) = Len(uses)
            /\ Len(ds) = Len(uses)
            /\ \A j \in 1 .. Len(uses) :
                last.content[j] = StatedResult(uses[j], ds[j].outcome)

\* C20: the results of a round stand in the user message in the order of the
\* tool-use blocks of the assistant response; a block that is not a tool use
\* produces no result; each tool is dispatched by the block's name with the
\* block's input; and a result's content is the tool's text verbatim on
\* success, 'Tool execution failed: ' followed by the error message on failure.
C20_ResultsInBlockOrder ==
    \A p \in Procs :
        /\ pc[p] = "tools" => ResultsFollowBlocks(p)
        /\ \A k \in 1 .. Len(calls[p]) - 1 :
            ToolRound(p, k) => MessageFollowsBlocks(p, k)

\* A round of two tool-use blocks, the first failing and the second
\* succeeding: the next call sees the error result before the output.
C20_Witness ==
    /\ Len(calls[1]) >= 2
    /\ Len(ToolUses(calls[1][1].outcome.content)) = 2
    /\ LET last == calls[1][2].params.messages[3].content
           ds == DispatchesOfRound(1, 1)
       IN  /\ Len(last) = 2
           /\ ds[1].outcome = "raise" /\ ds[2].outcome = "ok"
           /\ last[1].content.pre[1] = "Tool execution failed: "
           /\ last[2].content = ToolOutput(calls[1][1].outcome.content[2])


----------------------------------------------------------------------------
\* The step is one of invocation p.
ActsOn(p) == pc'[p] # pc[p] \/ block_index'[p] # block_index[p]

\* What an invocation keeps for itself.
OwnState(p) ==
    <<system_content[p], messages[p], round_count[p], response[p],
      tool_results[p], execution_success[p], block_index[p], result[p]>>

\* C21: no invocation of generate_response, on any path, failure paths
\* included, modifies the generator's shared base parameters, the static system
\* prompt or the caller's tool list; what a step of an invocation writes is the
\* chain, the round counter and the other locals of that invocation alone.
C21_SharedStateUntouched ==
    /\ [](/\ base_params = InitBaseParams
          /\ \A p \in Procs : \A c \in Range(calls[p]) :
                /\ c.params.system[1] = SYSTEM_PROMPT
                /\ \A key \in DOMAIN InitBaseParams : c.params[key] = InitBaseParams[key])
    /\ [][/\ base_params' = base_params
          /\ \A p \in Procs : Invoked(p) =>
                /\ args'[p].tools = args[p].tools
                /\ args'[p] = args[p]
          /\ \A p \in Procs : ActsOn(p) =>
                \A q \in Procs \ {p} : OwnState(q)' = OwnState(q)]_vars

\* Both invocations ended on a failure path, one raising from the call without
\* tools, the other returning an error string after a tool had failed, and the
\* shared parameters and the tool list are what they were.
C21_Witness ==
    /\ pc[1] = "raised"
    /\ pc[2] = "returned"
    /\ IsErrorString(result[2].value)
    /\ \E d \in Range(dispatches[2]) : d.outcome = "raise"
    /\ base_params = InitBaseParams
    /\ args[2].tools = SomeList(ToolSchemas)


----------------------------------------------------------------------------
LastCall(p) == calls[p][Len(calls[p])]

\* The invocation has made a call without tools.
MadeFinalCall(p) == calls[p] # <<>> /\ ~WithTools(LastCall(p))

\* C22: the value an invocation returns is the text of the last model call it
\* made, or an error string; and after the call without tools nothing is
\* dispatched and no model call is made, even when the response to that call
\* stops for tool use.
C22_ReturnsLastText ==
    /\ [](\A p \in Procs : Returned(p) =>
            /\ calls[p] # <<>>
            /\ ~result[p].raised
            /\ IF LastCall(p).outcome.raised
               THEN /\ IsErrorString(result[p].value)
                    /\ result[p].value.pre[2] = LastCall(p).outcome.error.pre[1]
               ELSE result[p].value = LastCall(p).outcome.content[1].text)
    /\ [][\A p \in Procs : MadeFinalCall(p) =>
            /\ calls'[p] = calls[p]
            /\ dispatches'[p] = dispatches[p]
            /\ result'[p] = result[p]
            /\ pc'[p] \in {"returned", "raised", "done"}]_vars

\* After a round with a dispatch, the call without tools was answered with
\* stop_reason tool_use: its text was returned, the sources were read, and the
\* tool-use block of that response was never dispatched.
C22_Witness ==
    /\ pc[1] = "done"
    /\ Len(calls[1]) >= 2
    /\ MadeFinalCall(1)
    /\ LastCall(1).outcome.stop_reason = "tool_use"
    /\ ToolUseBlocks(LastCall(1).outcome.content) # {}
    /\ result[1].value = LastCall(1).outcome.content[1].text
    /\ \A d \in Range(dispatches[1]) : d.after_call < Len(calls[1])


----------------------------------------------------------------------------
\* The tool-enabled calls of p that returned a response.
SuccessfulToolCalls(p) == {k \in ToolCalls(p) : ~calls[p][k].outcome.raised}

AssistantMessages(chain) == {j \in 1 .. Len(chain) : chain[j].role = "assistant"}

\* C23: in every state of the round loop with max_rounds >= 0, round_count
\* lies between 0 and max_rounds, equals the number of tool-enabled model
\* calls that returned a response, and bounds the number of assistant messages
\* in the chain.
C23_RoundCount ==
    \A p \in Procs :
        (InRoundLoop(p) /\ args[p].max_rounds >= 0) =>
            /\ 0 <= round_count[p]
            /\ round_count[p] <= args[p].max_rounds
            /\ round_count[p] = Cardinality(SuccessfulToolCalls(p))
            /\ Cardinality(AssistantMessages(messages[p])) <= round_count[p]

\* The budget is used up by rounds that all asked for tools: the counter
\* stands at max_rounds with as many assistant messages in the chain.
C23_Witness ==
    /\ InRoundLoop(1)
    /\ args[1].max_rounds = MaxRounds
    /\ round_count[1] = MaxRounds
    /\ Cardinality(AssistantMessages(messages[1])) = MaxRounds
    /\ pc[1] = "round_loop"


----------------------------------------------------------------------------
\* Tools and a tool manager were supplied with a budget of no round at all.
NoBudget(p) == InRoundLoop(p) /\ args[p].max_rounds <= 0

\* C24: with tools and a tool manager supplied and max_rounds <= 0, no
\* tool-enabled model call and no dispatch is made; exactly one model call,
\* without tools, is made on the chain holding only the user query, and the
\* text of its response is returned.
C24_NoRoundsOneCall ==
    \A p \in Procs :
        NoBudget(p) =>
            /\ ToolCalls(p) = {}
            /\ dispatches[p] = <<>>
            /\ round_count[p] = 0
            /\ Len(calls[p]) <= 1
            /\ Len(calls[p]) = 1 <=> Terminated(p)
            /\ \A c \in Range(calls[p]) :
                /\ "tool_choice" \notin DOMAIN c.params
                /\ c.params.messages = <<UserQuery(args[p].query)>>
            /\ (Terminated(p) /\ ~calls[p][1].outcome.raised) =>
                /\ Returned(p)
                /\ ~result[p].raised
                /\ result[p].value = calls[p][1].outcome.content[1].text

\* A negative budget: the one call without tools was made and its text
\* returned.
C24_Witness ==
    /\ NoBudget(1)
    /\ args[1].max_rounds < 0
    /\ Returned(1)
    /\ Len(calls[1]) = 1
    /\ ~WithTools(calls[1][1])
    /\ result[1].value = calls[1][1].outcome.content[1].text


----------------------------------------------------------------------------
\* The last call of p was the one made after a tool of the round had failed.
AfterToolError(p) ==
    /\ ~WithTools(LastCall(p))
    /\ Len(calls[p]) - 1 \in FailedRounds(p)

\* The last call of p was the one made once the budget was used up.
AfterBudget(p) ==
    /\ ~WithTools(LastCall(p))
    /\ Len(calls[p]) - 1 \notin FailedRounds(p)
    /\ round_count[p] >= args[p].max_rounds

ErrorString(prefix, e) == [e EXCEPT !.pre = <<prefix>> \o @]

\* C25: the error string tells where the failure happened: a failed round call
\* and a failed call after a tool error return 'Error generating response: '
\* and the message, and the failed call after budget exhaustion, and no other
\* failure, returns 'Error generating final response: ' and the message.
C25_ErrorStringNamesPlace ==
    \A p \in Procs :
        (InRoundLoop(p) /\ Returned(p)) =>
            LET e == LastCall(p).outcome.error IN
            /\ (LastCall(p).outcome.raised /\ WithTools(LastCall(p))) =>
                    result[p].value = ErrorString("Error generating response: ", e)
            /\ (LastCall(p).outcome.raised /\ AfterToolError(p)) =>
                    result[p].value = ErrorString("Error generating response: ", e)
            /\ (LastCall(p).outcome.raised /\ AfterBudget(p)) =>
                    result[p].value = ErrorString("Error generating final response: ", e)
            /\ (result[p].value.pre # <<>>
                    /\ result[p].value.pre[1] = "Error generating final response: ") =>
                    LastCall(p).outcome.raised /\ AfterBudget(p)
            /\ LastCall(p).outcome.raised =>
                    WithTools(LastCall(p)) \/ AfterToolError(p) \/ AfterBudget(p)

\* The call made after a failed tool failed too, with budget left: the string
\* is that of a failed round, not that of the final call.
C25_Witness ==
    /\ InRoundLoop(1)
    /\ Returned(1)
    /\ args[1].max_rounds = MaxRounds
    /\ round_count[1] = 1
    /\ AfterToolError(1)
    /\ LastCall(1).outcome.raised
    /\ result[1].value.pre[1] = "Error generating response: "


----------------------------------------------------------------------------
HelperDone == helper.pc \in {"returned", "raised"}

\* The first response asked for tools and every dispatch of round 1 succeeded.
FirstRoundSucceeded ==
    /\ ToolRound(1, 1)
    /\ \A d \in Range(DispatchesOfRound(1, 1)) : d.outcome = "ok"

\* The helper's dispatches are those of the first round, block by block.
SameDispatches ==
    LET ds == DispatchesOfRound(1, 1) IN
    /\ Len(helper.dispatches) = Len(ds)
    /\ \A j \in 1 .. Len(ds) :
        /\ helper.dispatches[j].id = ds[j].id
        /\ helper.dispatches[j].name = ds[j].name
        /\ helper.dispatches[j].input = ds[j].input

\* C26: for a first response that asks for tools and whose dispatches all
\* succeed, _handle_tool_execution appends the same messages (the assistant's
\* tool-use message, then one user message of results) and makes the same
\* call without tools as _execute_sequential_rounds with max_rounds = 1; it
\* works on a copy, so the message list in the base_params it was given is
\* left as it was; and a raising tool propagates out of it, without an error
\* result and without a call.
C26_HelperMatchesOneRound ==
    /\ helper.pc # "idle" =>
        /\ helper.base_params = calls[1][1].params
        /\ helper.base_params.messages = <<UserQuery(args[1].query)>>
    /\ (HelperDone /\ FirstRoundSucceeded /\ args[1].max_rounds = 1) =>
        /\ helper.messages = calls[1][2].params.messages
        /\ helper.messages =
            WithResults(Append(helper.base_params.messages,
                               AssistantMessage(helper.initial_response)),
                        ResultsOfRound(1, 1))
        /\ SameDispatches
        /\ Len(helper.calls) = 1
        /\ Len(calls[1]) = 2
        /\ helper.calls[1] = calls[1][2]
        /\ ~WithTools(helper.calls[1])
        /\ helper.pc = "returned" => helper.result = result[1]
        /\ Len(messages[1]) > Len(helper.base_params.messages)
    /\ (HelperDone /\ ToolRound(1, 1) /\ ~FirstRoundSucceeded) =>
        /\ helper.pc = "raised"
        /\ helper.result.raised
        /\ helper.calls = <<>>
        /\ \A r \in Range(helper.tool_results) : r.content.pre[1] # "Tool execution failed: "
        /\ Len(helper.tool_results) < Len(ResultsOfRound(1, 1))
        /\ helper.dispatches[Len(helper.dispatches)].outcome = "raise"

\* One round of a text block and a tool use: the helper made the call of the
\* round loop on the same three messages and returned the same text, and the
\* list it was given still holds the query alone.
C26_Witness ==
    /\ helper.pc = "returned"
    /\ args[1].max_rounds = 1
    /\ FirstRoundSucceeded
    /\ Len(helper.initial_response.content) = 2
    /\ Len(helper.messages) = 3
    /\ helper.calls[1] = calls[1][2]
    /\ helper.result = result[1]
    /\ Len(helper.base_params.messages) = 1

====
